---- MODULE Spec2Model ----
(***************************************************************************)
(* Model of the trend-prediction engine of the data-analyst plugin         *)
(* (src/predictor.py, class PredictorService) and of the predict command   *)
(* that calls it (src/main.py, predict_command).                           *)
(*                                                                         *)
(* Numbers.  The code computes in IEEE doubles.  The model computes in     *)
(* exact rationals extended with the IEEE specials: a value is a pair      *)
(* <<n, d>> with d >= 0; d > 0 is the reduced fraction n/d, <<1, 0>> is    *)
(* +inf, <<-1, 0>> is -inf and <<0, 0>> is nan.  Rounding error of doubles *)
(* is not modelled; division by zero, inf and nan are (numpy float64       *)
(* division by zero yields inf/nan with a warning, it does not raise).     *)
(***************************************************************************)
EXTENDS Integers, Sequences, FiniteSets, TLC

VARIABLES
    self,        \* the PredictorService fields set by __init__
    db,          \* storage layer: the daily counts a fetch returns, by date
    rng,         \* state of the process-wide numpy generator (np.random)
    pc,          \* position of the predict call
    args,        \* arguments of the predict call in progress
    locals,      \* local variables of the _predict_* coroutine in progress
    trace,       \* stages the call in progress has passed, in order
    result,      \* what predict returned to its caller
    escaped,     \* TRUE when an exception left predict
    fnArgs,      \* arguments of a directly applied helper method
    fnResult,    \* value the directly applied helper method returned
    kept,        \* what the caller kept of an earlier predict call
    handler      \* the predict command handler of the plugin (src/main.py)

vars == <<self, db, rng, pc, args, locals, trace, result, escaped, fnArgs, fnResult, kept, handler>>

svcVars == <<self, db, rng, pc, args, locals, trace, result, escaped>>

-----------------------------------------------------------------------------
(* Bounds of the model *)

MaxLen == 8            \* longest stored / applied history
MaxFnDays == 2         \* longest horizon of a directly applied predictor
NoiseMag == 3          \* magnitude of a non-zero noise draw
MaxCombLen == 2        \* longest list handed directly to the combiner
MaxCount == 2          \* largest daily count of a stored history
ScoreGrid == 64        \* the scorer computes on multiples of 1/ScoreGrid

(* Program constants *)

min_data_points == 7
max_prediction_days == 30

-----------------------------------------------------------------------------
(* Extended rational arithmetic *)

Abs(i) == IF i < 0 THEN -i ELSE i

Sign(i) == IF i < 0 THEN -1 ELSE IF i > 0 THEN 1 ELSE 0

RECURSIVE GCD(_, _)
GCD(a, b) == IF b = 0 THEN a ELSE GCD(b, a % b)

\* the value n/d in canonical form (d may have either sign)
Rat(n, d) ==
    IF d = 0 THEN <<Sign(n), 0>>
    ELSE LET g == GCD(Abs(n), Abs(d))
             s == Sign(d)
         IN  <<(s * n) \div g, Abs(d) \div g>>

Val(i) == <<i, 1>>
Zero == <<0, 1>>
One == <<1, 1>>
Half == <<1, 2>>
PosInf == <<1, 0>>
NegInf == <<-1, 0>>
NaN == <<0, 0>>

IsNaN(x) == x = NaN
IsInf(x) == x[2] = 0 /\ x[1] # 0
IsFinite(x) == x[2] > 0

\* x + y
RAdd(x, y) ==
    IF IsInf(x) /\ x = y THEN x
    ELSE IF x[2] = 0 \/ y[2] = 0
         THEN Rat(x[1] * y[2] + y[1] * x[2], 0)
         ELSE LET g == GCD(x[2], y[2])
              IN  Rat(x[1] * (y[2] \div g) + y[1] * (x[2] \div g),
                      (x[2] \div g) * y[2])

RNeg(x) == <<-x[1], x[2]>>

\* x - y
RSub(x, y) == RAdd(x, RNeg(y))

\* x * y
RMul(x, y) ==
    IF x[2] = 0 \/ y[2] = 0
    THEN <<Sign(x[1]) * Sign(y[1]), 0>>
    ELSE LET g1 == GCD(Abs(x[1]), y[2])
             g2 == GCD(Abs(y[1]), x[2])
             h1 == IF g1 = 0 THEN 1 ELSE g1
             h2 == IF g2 = 0 THEN 1 ELSE g2
         IN  Rat((x[1] \div h1) * (y[1] \div h2),
                 (x[2] \div h2) * (y[2] \div h1))

\* 1 / y (1/0 = +inf, 1/inf = 0, 1/nan = nan)
RInv(y) == IF y[1] < 0 THEN <<-y[2], -y[1]>> ELSE <<y[2], y[1]>>

\* x / y under numpy float64 rules: finite/0 = +-inf, 0/0 = nan, no exception
RDiv(x, y) == RMul(x, RInv(y))

\* x < y; every comparison with nan is false
RLess(x, y) ==
    IF IsNaN(x) \/ IsNaN(y) \/ x = y THEN FALSE
    ELSE IF x = NegInf \/ y = PosInf THEN TRUE
    ELSE IF x = PosInf \/ y = NegInf THEN FALSE
    ELSE x[1] * y[2] < y[1] * x[2]

RGreater(x, y) == RLess(y, x)

RLeq(x, y) == (x = y /\ ~IsNaN(x)) \/ RLess(x, y)

RAbs(x) == <<Abs(x[1]), x[2]>>

\* Python's max(a, b): b when b > a, else a
PyMax(a, b) == IF RGreater(b, a) THEN b ELSE a

\* Python's min(a, b): b when b < a, else a
PyMin(a, b) == IF RLess(b, a) THEN b ELSE a

\* the Python list of ints as a list of values
ToValues(data) == [i \in 1..Len(data) |-> Val(data[i])]

\* s[a] + ... + s[b], summed by halves
RECURSIVE RSumRange(_, _, _)
RSumRange(s, a, b) ==
    IF a > b THEN Zero
    ELSE IF a = b THEN s[a]
    ELSE LET m == (a + b) \div 2
         IN  RAdd(RSumRange(s, a, m), RSumRange(s, m + 1, b))

\* the sum of the first k values of s
RSumTo(s, k) == RSumRange(s, 1, k)

\* sum(s) of a list of values
RSum(s) == RSumTo(s, Len(s))

\* np.mean(s); the mean of an empty list is nan
Mean(s) == RDiv(RSum(s), Val(Len(s)))

\* s[-k:] of a Python list
LastK(s, k) == IF Len(s) <= k THEN s ELSE SubSeq(s, Len(s) - k + 1, Len(s))

\* s[:k] of a Python list
FirstK(s, k) == IF Len(s) <= k THEN s ELSE SubSeq(s, 1, k)

\* np.std(data) == 0: all values are equal
StdIsZero(s) == \A i, j \in 1..Len(s) : s[i] = s[j]

-----------------------------------------------------------------------------
(* The predictors.  data is the history as a list of values, days the      *)
(* horizon (predict only passes 1..max_prediction_days).                   *)

\* np.maximum(x, 0) on an array element
NpMaximum0(x) == IF IsNaN(x) THEN x ELSE IF RLess(x, Zero) THEN Zero ELSE x

\* LinearRegression().fit(X, y) over X = 0..n-1: <<coef_, intercept_>>
LinearFit(data) ==
    LET n == Len(data)
        xs == [i \in 1..n |-> Val(i - 1)]
        x_mean == Mean(xs)
        y_mean == Mean(data)
        sxy == RSum([i \in 1..n |->
                   RMul(RSub(xs[i], x_mean), RSub(data[i], y_mean))])
        sxx == RSum([i \in 1..n |->
                   RMul(RSub(xs[i], x_mean), RSub(xs[i], x_mean))])
        coef == RDiv(sxy, sxx)
    IN  <<coef, RSub(y_mean, RMul(coef, x_mean))>>

\* the model is fitted without an intercept term
LinearAt_NoIntercept(fit, x) == RMul(fit[1], Val(x))

\* model.predict at X = x
LinearAt(fit, x) == RAdd(fit[2], RMul(fit[1], Val(x)))

\* the projection runs one day too far
_linear_prediction_OneMore(data, days) ==
    IF Len(data) < 2
    THEN [i \in 1..(days + 1) |-> IF Len(data) > 0 THEN data[1] ELSE Zero]
    ELSE [k \in 1..(days + 1) |->
             NpMaximum0(LinearAt(LinearFit(data), Len(data) + k - 1))]

_linear_prediction(data, days) ==
    IF Len(data) < 2
    THEN [i \in 1..days |-> IF Len(data) > 0 THEN data[1] ELSE Zero]
    ELSE LET n == Len(data)
             fit == LinearFit(data)
         IN  [k \in 1..days |-> NpMaximum0(LinearAt(fit, n + k - 1))]

\* np.random.normal(0, np.std(data) * 0.1) for the standard draw z: a scale
\* of 0 gives 0; a positive scale lets the noise be any real as z varies,
\* so the draw is taken as the noise itself
\* the draw is not scaled by the deviation of the history
Noise_Unscaled(data, z) == z

Noise(data, z) == IF StdIsZero(data) THEN Zero ELSE z

\* the difference of the two window means is not divided by the window
_trend_analysis_prediction_SlopePerDay(data, days, noise) ==
    IF Len(data) < 3
    THEN _linear_prediction(data, days)
    ELSE LET n == Len(data)
             recent_window == IF 7 < n \div 2 THEN 7 ELSE n \div 2
             trend_slope == RSub(Mean(LastK(data, recent_window)),
                                 Mean(FirstK(data, recent_window)))
         IN  [i \in 1..days |->
                 PyMax(Zero, RAdd(RAdd(data[n], RMul(trend_slope, Val(i))),
                                  Noise(data, noise[i])))]

\* the clamp is applied before the noise is added
_trend_analysis_prediction_ClampFirst(data, days, noise) ==
    IF Len(data) < 3
    THEN [i \in 1..days |-> IF Len(data) > 0 THEN data[1] ELSE Zero]
    ELSE LET n == Len(data)
             recent_window == IF 7 < n \div 2 THEN 7 ELSE n \div 2
             trend_slope == RDiv(RSub(Mean(LastK(data, recent_window)),
                                      Mean(FirstK(data, recent_window))),
                                 Val(recent_window))
         IN  [i \in 1..days |->
                 RAdd(PyMax(Zero, RAdd(data[n], RMul(trend_slope, Val(i)))),
                      Noise(data, noise[i]))]

\* noise holds the days draws of the generator, in loop order
_trend_analysis_prediction(data, days, noise) ==
    IF Len(data) < 3
    THEN _linear_prediction(data, days)
    ELSE LET n == Len(data)
             recent_window == IF 7 < n \div 2 THEN 7 ELSE n \div 2
             recent_avg == Mean(LastK(data, recent_window))
             early_avg == Mean(FirstK(data, recent_window))
             trend_slope == RDiv(RSub(recent_avg, early_avg), Val(recent_window))
             last_value == data[n]
         IN  [i \in 1..days |->
                 LET predicted_value == RAdd(last_value, RMul(trend_slope, Val(i)))
                 IN  PyMax(Zero, RAdd(predicted_value, Noise(data, noise[i])))]

\* the stride of the weekly pattern is 6
WeekValues_Stride6(data, i) ==
    [k \in 1..((Len(data) - 1 - i) \div 6 + 1) |-> data[i + 6 * (k - 1) + 1]]

\* [data[j] for j in range(i, len(data), 7)], i counted from 0
WeekValues(data, i) ==
    [k \in 1..((Len(data) - 1 - i) \div 7 + 1) |-> data[i + 7 * (k - 1) + 1]]

_seasonal_prediction(data, days) ==
    IF Len(data) < 7
    THEN _linear_prediction(data, days)
    ELSE LET week_pattern == [i \in 1..7 |-> Mean(WeekValues(data, i - 1))]
             first7 == Mean(FirstK(data, 7))
             trend_factor == RAdd(One, RDiv(RSub(Mean(LastK(data, 7)), first7), first7))
         IN  [i \in 1..days |->
                 LET base_value == week_pattern[((i - 1) % 7) + 1]
                 IN  PyMax(Zero, RMul(base_value, trend_factor))]

\* the weights sum to 1 but two of them are negative
weights_Negative == <<Rat(16, 10), Rat(-3, 10), Rat(-3, 10)>>

\* the first two weights are exchanged
weights_Exchanged == <<Rat(3, 10), Rat(4, 10), Rat(3, 10)>>

\* weights = [0.4, 0.3, 0.3]
weights == <<Rat(4, 10), Rat(3, 10), Rat(3, 10)>>

\* the weight of the j-th non-empty list (j counted from 1)
WeightOf(j, nvalid) ==
    IF j <= Len(weights) THEN weights[j] ELSE RDiv(One, Val(nvalid))

\* <<weighted_sum, total_weight>> after the inner loop has passed lists 1..j
RECURSIVE CombineAt(_, _, _)
CombineAt(valid, i, j) ==
    IF j = 0 THEN <<Zero, Zero>>
    ELSE LET acc == CombineAt(valid, i, j - 1)
         IN  IF i <= Len(valid[j])
             THEN <<RAdd(acc[1], RMul(valid[j][i], WeightOf(j, Len(valid)))),
                    RAdd(acc[2], WeightOf(j, Len(valid)))>>
             ELSE acc

_combine_predictions(prediction_lists) ==
    LET valid_predictions == SelectSeq(prediction_lists, LAMBDA p : Len(p) > 0)
    IN  IF Len(prediction_lists) = 0 \/ Len(valid_predictions) = 0
        THEN <<>>
        ELSE [i \in 1..Len(valid_predictions[1]) |->
                 LET acc == CombineAt(valid_predictions, i, Len(valid_predictions))
                 IN  IF RGreater(acc[2], Zero) THEN RDiv(acc[1], acc[2]) ELSE Zero]

-----------------------------------------------------------------------------
(* Confidence and trend classification *)

Sq(x) == RMul(x, x)

\* sklearn.metrics.r2_score(y_true, y_pred) for finite inputs: 1 - SSres/SStot,
\* and for a constant y_true 1.0 on a perfect fit, else 0.0
R2Score(y_true, y_pred) ==
    LET n == Len(y_true)
        y_mean == Mean(y_true)
        numerator == RSum([i \in 1..n |-> Sq(RSub(y_true[i], y_pred[i]))])
        denominator == RSum([i \in 1..n |-> Sq(RSub(y_true[i], y_mean))])
    IN  IF denominator # Zero THEN RSub(One, RDiv(numerator, denominator))
        ELSE IF numerator # Zero THEN Zero
        ELSE One

\* np.mean(np.abs((historical - fitted) / np.maximum(historical, 1)))
Mape(historical, fitted) ==
    Mean([i \in 1..Len(historical) |->
             RAbs(RDiv(RSub(historical[i], fitted[i]),
                       IF RLess(historical[i], One) THEN One ELSE historical[i]))])

\* A double carries 53 bits and the model's integers 32, and the scorer
\* squares its inputs: the model carries the fitted values, as the scorer
\* reads them into float arrays, on the grid of multiples of 1/ScoreGrid
\* (rounded half up).  Integers are on the grid.
ToFloatArray(fitted) ==
    [i \in 1..Len(fitted) |->
        LET x == fitted[i]
        IN  Rat((2 * x[1] * ScoreGrid + x[2]) \div (2 * x[2]), ScoreGrid)]

\* the result is not clamped to [0, 1]
_calculate_confidence_Unclamped(historical, fitted_list) ==
    IF Len(historical) # Len(fitted_list) \/ Len(historical) < 2
    THEN Half
    ELSE IF \E i \in 1..Len(fitted_list) :
                ~IsFinite(fitted_list[i]) \/ ~IsFinite(historical[i])
    THEN Half
    ELSE RDiv(RAdd(R2Score(historical, ToFloatArray(fitted_list)),
                   RSub(One, Mape(historical, ToFloatArray(fitted_list)))), Val(2))

\* r2_score validates its inputs and raises ValueError on inf or nan;
\* the except branch then answers 0.5
_calculate_confidence(historical, fitted_list) ==
    IF Len(historical) # Len(fitted_list) \/ Len(historical) < 2
    THEN Half
    ELSE IF \E i \in 1..Len(fitted_list) :
                ~IsFinite(fitted_list[i]) \/ ~IsFinite(historical[i])
    THEN Half
    ELSE LET fitted == ToFloatArray(fitted_list)
             r2 == R2Score(historical, fitted)
             mape == Mape(historical, fitted)
         IN  PyMax(Zero, PyMin(One, RDiv(RAdd(r2, RSub(One, mape)), Val(2))))

\* np.mean(historical[-7:]) if len(historical) >= 7 else np.mean(historical)
RecentAvg(historical) ==
    IF Len(historical) >= 7 THEN Mean(LastK(historical, 7)) ELSE Mean(historical)

\* the recent average is taken over the whole history
_analyze_trend_direction_AllHistory(historical, predictions) ==
    IF Len(historical) = 0 \/ Len(predictions) = 0
    THEN "unknown"
    ELSE LET recent_avg == Mean(historical)
             change_rate == IF RGreater(recent_avg, Zero)
                            THEN RDiv(RSub(Mean(predictions), recent_avg), recent_avg)
                            ELSE Zero
         IN  IF RGreater(change_rate, Rat(1, 10)) THEN "rising"
             ELSE IF RLess(change_rate, Rat(-1, 10)) THEN "falling"
             ELSE "stable"

\* the thresholds are inclusive
_analyze_trend_direction_Inclusive(historical, predictions) ==
    IF Len(historical) = 0 \/ Len(predictions) = 0
    THEN "unknown"
    ELSE LET recent_avg == RecentAvg(historical)
             change_rate == IF RGreater(recent_avg, Zero)
                            THEN RDiv(RSub(Mean(predictions), recent_avg), recent_avg)
                            ELSE Zero
         IN  IF RLeq(Rat(1, 10), change_rate) THEN "rising"
             ELSE IF RLeq(change_rate, Rat(-1, 10)) THEN "falling"
             ELSE "stable"

\* labels: "rising" for the source's shang-sheng, "falling" for xia-jiang,
\* "stable" for wen-ding, "unknown" for wei-zhi
_analyze_trend_direction(historical, predictions) ==
    IF Len(historical) = 0 \/ Len(predictions) = 0
    THEN "unknown"
    ELSE LET recent_avg == RecentAvg(historical)
             predicted_avg == Mean(predictions)
             change_rate == IF RGreater(recent_avg, Zero)
                            THEN RDiv(RSub(predicted_avg, recent_avg), recent_avg)
                            ELSE Zero
         IN  IF RGreater(change_rate, Rat(1, 10)) THEN "rising"
             ELSE IF RLess(change_rate, Rat(-1, 10)) THEN "falling"
             ELSE "stable"

\* the division by the recent average is not guarded
ChangePercent_Unguarded(counts, predictions) ==
    RMul(RDiv(RSub(Mean(predictions), RecentAvg(counts)), RecentAvg(counts)),
         Val(100))

\* ((future_avg - current_avg) / current_avg * 100) if current_avg > 0 else 0
ChangePercent(counts, predictions) ==
    LET current_avg == RecentAvg(counts)
        future_avg == Mean(predictions)
    IN  IF RGreater(current_avg, Zero)
        THEN RMul(RDiv(RSub(future_avg, current_avg), current_avg), Val(100))
        ELSE Zero

-----------------------------------------------------------------------------
(* The process-wide generator np.random: a state and the draw it yields.  *)
(* Every state of the short cycle below is a state a call may find the     *)
(* generator in; a draw moves it to the next.                              *)

NoiseSet == {Val(-NoiseMag), Zero, Val(NoiseMag)}

NoiseStream == <<Val(-NoiseMag), Zero, Val(NoiseMag)>>

RngStates == 0..(Len(NoiseStream) - 1)

\* the next k draws from state r, in order
Draws(r, k) == [i \in 1..k |-> NoiseStream[((r + i - 1) % Len(NoiseStream)) + 1]]

\* the generator state after k draws
Advance(r, k) == (r + k) % Len(NoiseStream)

-----------------------------------------------------------------------------
(* PredictorService.predict as a state machine *)

Targets == {"activity", "members", "topics", "users"}

Horizons == {-1, 0, 1, min_data_points + 1,
             max_prediction_days, max_prediction_days + 1}

\* every list of at most k values of S
SeqsUpTo(S, k) == UNION {[1..n -> S] : n \in 0..k}

Counts == 0..MaxCount

\* the stored histories, as the rows a fetch finds inside the window it asks
\* for (ordered by date, one row per day with data): every length up to
\* MaxLen, the count changing at most once over the days
Histories ==
    {[k \in 1..n |-> IF k <= i THEN a ELSE b] :
        n \in 0..MaxLen, i \in 0..MaxLen, a \in Counts, b \in Counts}

Unset == <<0, -1>>

NoLocals == [counts |-> <<>>, noise |-> <<>>, predictions |-> <<>>, fitted |-> <<>>,
             confidence |-> Unset, trend_direction |-> "",
             change_percent |-> Unset, description |-> <<>>]

NoArgs == [target |-> "", days |-> 0]

NoCall == [kind |-> "NoCall"]

None == [kind |-> "None"]

\* PredictionResult(predictions=..., confidence=..., trend_direction=...,
\*                  change_percent=..., description=...)
PredictionResult(l) ==
    [kind |-> "PredictionResult", predictions |-> l.predictions,
     confidence |-> l.confidence, trend_direction |-> l.trend_direction,
     change_percent |-> l.change_percent, description |-> l.description]

NoFn == [fn |-> "none"]

\* no command is being handled
NoHandler == [pc |-> "none"]

InitService ==
    /\ self = [min_data_points |-> min_data_points,
               max_prediction_days |-> max_prediction_days]
    /\ db \in Histories
    /\ rng \in RngStates
    /\ pc = "idle"
    /\ args = NoArgs
    /\ locals = NoLocals
    /\ trace = <<>>
    /\ result = NoCall
    /\ escaped = FALSE
    /\ kept = NoCall
    /\ handler = NoHandler
    /\ fnArgs = NoFn
    /\ fnResult = NoFn

\* a horizon of 0 passes the check
InvalidHorizon_ZeroAllowed(days) == days < 0 \/ days > self.max_prediction_days

\* days <= 0 or days > self.max_prediction_days
InvalidHorizon(days) == days <= 0 \/ days > self.max_prediction_days

\* the dispatch has no refusing else branch
SupportedTarget_Any(target) == TRUE

SupportedTarget(target) == target \in {"activity", "members", "topics"}

\* the horizon asked for is stored as the new limit of the service
Predict_RemembersHorizon(target, days) ==
    /\ pc = "idle"
    /\ args' = [target |-> target, days |-> days]
    /\ locals' = NoLocals
    /\ trace' = <<"validate">>
    /\ escaped' = FALSE
    /\ self' = [self EXCEPT !.max_prediction_days = days]
    /\ IF InvalidHorizon(days) \/ ~SupportedTarget(target)
       THEN pc' = "returned" /\ result' = None
       ELSE pc' = "fetch" /\ result' = NoCall
    /\ UNCHANGED <<db, rng, fnArgs, fnResult, kept>>

\* predict(group_id, target, days) up to its first await: the horizon check,
\* then the dispatch on target
Predict(target, days) ==
    /\ pc = "idle"
    /\ args' = [target |-> target, days |-> days]
    /\ locals' = NoLocals
    /\ trace' = <<"validate">>
    /\ escaped' = FALSE
    /\ IF InvalidHorizon(days) \/ ~SupportedTarget(target)
       THEN pc' = "returned" /\ result' = None
       ELSE pc' = "fetch" /\ result' = NoCall
    /\ UNCHANGED <<self, db, rng, fnArgs, fnResult, kept>>

\* the except clause logs and raises again
HandleException_Reraise == [result |-> NoCall, escaped |-> TRUE]

\* except Exception as e: logger.error(...); return None -- the exception
\* is consumed and the caller gets None
HandleException == [result |-> None, escaped |-> FALSE]

\* the check on the fetched rows is missing
InsufficientData_Never(rows) == FALSE

\* the minimum is compared one too low
InsufficientData_OffByOne(rows) ==
    Len(rows) = 0 \/ Len(rows) < self.min_data_points - 1

\* the rows are too few: not daily_data, or len(...) < self.min_data_points
InsufficientData(rows) == Len(rows) = 0 \/ Len(rows) < self.min_data_points

\* The fetch of the history and the checks on it.  outcome is what the
\* storage does: it answers with the stored rows or it fails.  A failure
\* inside get_activity_analysis is swallowed there and answered with None;
\* a failure of the aiosqlite calls made for members and topics raises into
\* the except clause of the coroutine.
Fetch(outcome) ==
    /\ pc = "fetch"
    /\ trace' = Append(trace, "fetch")
    /\ IF outcome = "error" /\ args.target # "activity"
       THEN /\ result' = HandleException.result
            /\ escaped' = HandleException.escaped
            /\ pc' = "returned"
            /\ locals' = locals
       ELSE IF outcome = "error" \/ InsufficientData(db)
       THEN /\ result' = None
            /\ pc' = "returned"
            /\ UNCHANGED <<locals, escaped>>
       ELSE /\ locals' = [locals EXCEPT !.counts = ToValues(db)]
            /\ pc' = "model"
            /\ UNCHANGED <<result, escaped>>
    /\ UNCHANGED <<self, db, rng, args, fnArgs, fnResult, kept, handler>>

\* the members forecast is made by the predictor that draws noise
Forecast_NoisyMembers(target, counts, days, noise) ==
    IF target = "activity"
    THEN _combine_predictions(<<_linear_prediction(counts, days),
                                _trend_analysis_prediction(counts, days, noise),
                                _seasonal_prediction(counts, days)>>)
    ELSE IF target = "members"
    THEN _trend_analysis_prediction(counts, days, Draws(rng, days))
    ELSE _seasonal_prediction(counts, days)

\* the forecast of each target from counts
Forecast(target, counts, days, noise) ==
    IF target = "activity"
    THEN _combine_predictions(<<_linear_prediction(counts, days),
                                _trend_analysis_prediction(counts, days, noise),
                                _seasonal_prediction(counts, days)>>)
    ELSE IF target = "members"
    THEN _linear_prediction(counts, days)
    ELSE _seasonal_prediction(counts, days)

\* the predictors are run; only the activity ensemble draws noise
RunPredictors ==
    /\ pc = "model"
    /\ trace' = Append(trace, "predict")
    /\ locals' = [locals EXCEPT
                      !.noise = IF args.target = "activity"
                                THEN Draws(rng, args.days) ELSE <<>>,
                      !.predictions = Forecast(args.target, locals.counts,
                                               args.days, Draws(rng, args.days))]
    /\ rng' = IF args.target = "activity" THEN Advance(rng, args.days) ELSE rng
    /\ pc' = "score"
    /\ UNCHANGED <<self, db, args, result, escaped, fnArgs, fnResult, kept, handler>>

\* the forecast is stretched to the length of the history
FittedArgument_Padded(counts, predictions) ==
    [i \in 1..Len(counts) |->
        predictions[IF i < Len(predictions) THEN i ELSE Len(predictions)]]

\* the second argument of _calculate_confidence: predictions[:len(counts)]
FittedArgument(counts, predictions) == FirstK(predictions, Len(counts))

Score ==
    /\ pc = "score"
    /\ trace' = Append(trace, "score")
    /\ LET fitted == FittedArgument(locals.counts, locals.predictions)
       IN  locals' = [locals EXCEPT
                          !.fitted = fitted,
                          !.confidence = _calculate_confidence(locals.counts, fitted)]
    /\ pc' = "describe"
    /\ UNCHANGED <<self, db, rng, args, result, escaped, fnArgs, fnResult, kept, handler>>

\* the members thresholds are those of the activity classifier
TrendDirection_MembersTen(target, counts, predictions, change_percent) ==
    IF target = "activity"
    THEN _analyze_trend_direction(counts, predictions)
    ELSE IF target = "members"
    THEN IF RGreater(change_percent, Val(10)) THEN "growing"
         ELSE IF RLess(change_percent, Val(-10)) THEN "falling"
         ELSE "stable"
    ELSE IF RGreater(change_percent, Val(10)) THEN "topics_diversifying"
         ELSE IF RLess(change_percent, Val(-10)) THEN "topics_concentrating"
         ELSE "topics_stable"

\* labels: "growing" (members, above +5), "falling", "stable"; for topics
\* "topics_diversifying", "topics_concentrating", "topics_stable"
TrendDirection(target, counts, predictions, change_percent) ==
    IF target = "activity"
    THEN _analyze_trend_direction(counts, predictions)
    ELSE IF target = "members"
    THEN IF RGreater(change_percent, Val(5)) THEN "growing"
         ELSE IF RLess(change_percent, Val(-5)) THEN "falling"
         ELSE "stable"
    ELSE IF RGreater(change_percent, Val(10)) THEN "topics_diversifying"
         ELSE IF RLess(change_percent, Val(-10)) THEN "topics_concentrating"
         ELSE "topics_stable"

\* the wording chosen by _generate_activity_prediction_description
_generate_activity_prediction_description(days, future_avg, current_avg, change_percent, confidence, trend_direction) ==
    [title |-> "activity", days |-> days, future_avg |-> future_avg,
     change_percent |-> change_percent, confidence |-> confidence,
     trend_desc |-> IF trend_direction = "rising" THEN "keeps_rising"
                    ELSE IF trend_direction = "falling" THEN "may_fall"
                    ELSE "stays_stable",
     confidence_desc |-> IF RGreater(confidence, Rat(8, 10)) THEN "high"
                         ELSE IF RGreater(confidence, Rat(6, 10)) THEN "moderate"
                         ELSE "reference_only",
     change_desc |-> IF RGreater(RAbs(change_percent), Val(20)) THEN "large"
                     ELSE IF RGreater(RAbs(change_percent), Val(10)) THEN "notable"
                     ELSE "small"]

\* the sentence chosen by _generate_topic_trend_insights
_generate_topic_trend_insights(change_percent) ==
    IF RGreater(change_percent, Val(15)) THEN "diversifying"
    ELSE IF RLess(change_percent, Val(-15)) THEN "concentrating"
    ELSE "stable"

Description(target, days, counts, predictions, change_percent, confidence, trend_direction) ==
    IF target = "activity"
    THEN _generate_activity_prediction_description(
             days, Mean(predictions), RecentAvg(counts),
             change_percent, confidence, trend_direction)
    ELSE IF target = "members"
    THEN [title |-> "members", days |-> days, future_avg |-> Mean(predictions),
          change_percent |-> change_percent, trend |-> trend_direction,
          confidence |-> confidence, basis_days |-> Len(counts)]
    ELSE [title |-> "topics", days |-> days, future_avg |-> Mean(predictions),
          change_percent |-> change_percent, trend |-> trend_direction,
          confidence |-> confidence,
          insight |-> _generate_topic_trend_insights(change_percent)]

\* trend direction, change percent and the description
Describe ==
    /\ pc = "describe"
    /\ trace' = Append(trace, "describe")
    /\ LET change_percent == ChangePercent(locals.counts, locals.predictions)
           trend_direction == TrendDirection(args.target, locals.counts,
                                             locals.predictions, change_percent)
       IN  locals' = [locals EXCEPT
                          !.change_percent = change_percent,
                          !.trend_direction = trend_direction,
                          !.description = Description(args.target, args.days,
                              locals.counts, locals.predictions, change_percent,
                              locals.confidence, trend_direction)]
    /\ pc' = "return"
    /\ UNCHANGED <<self, db, rng, args, result, escaped, fnArgs, fnResult, kept, handler>>

\* return PredictionResult(...)
Return ==
    /\ pc = "return"
    /\ trace' = Append(trace, "return")
    /\ result' = PredictionResult(locals)
    /\ pc' = "returned"
    /\ UNCHANGED <<self, db, rng, args, locals, escaped, fnArgs, fnResult, kept, handler>>

\* the caller has taken the result; the call's frame is gone
Done ==
    /\ pc = "returned"
    /\ pc' = "idle"
    /\ args' = NoArgs
    /\ locals' = NoLocals
    /\ trace' = <<>>
    /\ result' = NoCall
    /\ UNCHANGED <<self, db, rng, escaped, fnArgs, fnResult, kept, handler>>

Next ==
    \/ \E target \in Targets, days \in Horizons :
          Predict(target, days) /\ UNCHANGED handler
    \/ \E outcome \in {"rows", "error"} : Fetch(outcome)
    \/ RunPredictors
    \/ Score
    \/ Describe
    \/ Return
    \/ Done

Spec == InitService /\ [][Next]_vars

-----------------------------------------------------------------------------
(* Claims about predict *)

ValidHorizon(days) == days >= 1 /\ days <= 30

Returned == pc = "returned"

ReturnedResult == pc = "returned" /\ result.kind = "PredictionResult"

InTrace(stage) == \E i \in 1..Len(trace) : trace[i] = stage

\* C1: whenever predict returns a result, the length of result.predictions
\* equals the requested horizon.
C1_LengthContract ==
    ReturnedResult => Len(result.predictions) = args.days

\* an activity forecast over the longest horizon has been returned
C1_Witness ==
    /\ ReturnedResult
    /\ args.target = "activity"
    /\ args.days = 30
    /\ Len(db) >= 7
    /\ Len(result.predictions) = 30

\* C2: for every supported target and valid horizon, a fetched history of
\* fewer than 7 points (an empty one included) makes predict return None.
C2_RefusalOnInsufficientData ==
    (Returned /\ ValidHorizon(args.days)
        /\ args.target \in {"activity", "members", "topics"} /\ Len(db) < 7)
    => result.kind = "None"

\* six stored days were fetched and the call was refused
C2_Witness ==
    /\ Returned
    /\ args.target = "topics"
    /\ args.days = 1
    /\ Len(db) = 6
    /\ trace = <<"validate", "fetch">>
    /\ result.kind = "None"

\* C3: a horizon of 0, a negative horizon or a horizon above 30 is answered
\* with None for every target, and the call passes no stage after the
\* validation: no history is fetched and no predictor is run.
C3_RefusalOnInvalidHorizon ==
    (pc # "idle" /\ ~ValidHorizon(args.days))
    => /\ pc = "returned"
       /\ result.kind = "None"
       /\ trace = <<"validate">>

\* horizon 31 on the activity target has been refused
C3_Witness ==
    /\ Returned
    /\ args.target = "activity"
    /\ args.days = 31
    /\ result.kind = "None"

\* C4: a target other than activity, members and topics is answered with
\* None for every horizon, and no history is fetched.
C4_UnsupportedTarget ==
    (pc # "idle" /\ args.target \notin {"activity", "members", "topics"})
    => /\ pc = "returned"
       /\ result.kind = "None"
       /\ ~InTrace("fetch")

\* the target "users" with a valid horizon has been refused
C4_Witness ==
    /\ Returned
    /\ args.target = "users"
    /\ args.days = 8
    /\ result.kind = "None"

IsNumber(x) == x[2] >= 0

TrendLabels == {"rising", "falling", "stable", "unknown", "growing",
                "topics_diversifying", "topics_concentrating", "topics_stable"}

\* C5: predict never raises to its caller; whatever the storage does, the
\* outcome is None or a PredictionResult with predictions, confidence,
\* trend_direction, change_percent and description all set.
C5_NoneOrCompleteResult ==
    Returned =>
        /\ ~escaped
        /\ \/ result.kind = "None"
           \/ /\ result.kind = "PredictionResult"
              /\ Len(result.predictions) >= 1
              /\ \A i \in 1..Len(result.predictions) : IsNumber(result.predictions[i])
              /\ IsNumber(result.confidence)
              /\ result.trend_direction \in TrendLabels
              /\ IsNumber(result.change_percent)
              /\ result.description # <<>>

\* the fetch of a sufficient members history failed and predict returned None
C5_Witness ==
    /\ Returned
    /\ args.target = "members"
    /\ Len(db) >= 7
    /\ trace = <<"validate", "fetch">>
    /\ result.kind = "None"
    /\ ~escaped

-----------------------------------------------------------------------------
(* The helper methods applied directly: one application per behaviour, on  *)
(* arguments drawn from bounded sets.  No predict call is in progress.     *)

NoService ==
    /\ self = [min_data_points |-> min_data_points,
               max_prediction_days |-> max_prediction_days]
    /\ db = <<>>
    /\ rng = 0
    /\ pc = "direct"
    /\ args = NoArgs
    /\ locals = NoLocals
    /\ trace = <<>>
    /\ result = NoCall
    /\ escaped = FALSE
    /\ kept = NoCall
    /\ handler = NoHandler

\* histories handed to a predictor: every short one, and the stored ones
FnSeries == {ToValues(h) : h \in SeqsUpTo(Counts, 3) \cup Histories}

InitPredictors ==
    /\ NoService
    /\ fnArgs \in {[fn |-> "predictors", data |-> d, days |-> h, noise |-> z] :
                      d \in FnSeries, h \in {MaxFnDays},
                      z \in [1..MaxFnDays -> NoiseSet]}
                  \cup
                  {[fn |-> "predictors", data |-> d, days |-> 1, noise |-> <<z>>] :
                      d \in FnSeries, z \in NoiseSet}
    /\ fnResult = NoFn

Apply(fn, out) ==
    /\ pc = "direct"
    /\ fnResult = NoFn
    /\ fnResult' = [fn |-> fn, out |-> out]
    /\ UNCHANGED <<svcVars, fnArgs, kept, handler>>

ApplyLinear ==
    /\ fnArgs.fn = "predictors"
    /\ Apply("linear", _linear_prediction(fnArgs.data, fnArgs.days))

ApplyTrend ==
    /\ fnArgs.fn = "predictors"
    /\ Apply("trend", _trend_analysis_prediction(fnArgs.data, fnArgs.days, fnArgs.noise))

ApplySeasonal ==
    /\ fnArgs.fn = "predictors"
    /\ Apply("seasonal", _seasonal_prediction(fnArgs.data, fnArgs.days))

ApplyEnsemble ==
    /\ fnArgs.fn = "predictors"
    /\ Apply("ensemble", Forecast("activity", fnArgs.data, fnArgs.days, fnArgs.noise))

NextPredictors == ApplyLinear \/ ApplyTrend \/ ApplySeasonal \/ ApplyEnsemble

SpecPredictors == InitPredictors /\ [][NextPredictors]_vars

CombVals == {Zero, Val(2), PosInf}

InitCombine ==
    /\ NoService
    /\ fnArgs \in {[fn |-> "combine", lists |-> <<l, t, s>>] :
                      l \in SeqsUpTo(CombVals, MaxCombLen),
                      t \in SeqsUpTo(CombVals, MaxCombLen),
                      s \in SeqsUpTo(CombVals, MaxCombLen)}
    /\ fnResult = NoFn

ApplyCombine ==
    /\ fnArgs.fn = "combine"
    /\ Apply("combine", _combine_predictions(fnArgs.lists))

SpecCombine == InitCombine /\ [][ApplyCombine]_vars

ConfVals == {Zero, Half, Val(3), PosInf, NaN}

InitConfidence ==
    /\ NoService
    /\ fnArgs \in {[fn |-> "confidence", historical |-> ToValues(h), fitted |-> f] :
                      h \in SeqsUpTo(Counts, 3), f \in SeqsUpTo(ConfVals, 3)}
    /\ fnResult = NoFn

ApplyConfidence ==
    /\ fnArgs.fn = "confidence"
    /\ Apply("confidence", _calculate_confidence(fnArgs.historical, fnArgs.fitted))

\* the scorer inside predict, and the scorer applied to any pair of lists
SpecConfidence ==
    (InitService \/ InitConfidence) /\ [][Next \/ ApplyConfidence]_vars

TrendCounts == {0, 100}

TrendPreds == {Val(85), Val(90), Val(102), Val(110), Val(115)}

TrendHistories ==
    {ToValues([k \in 1..n |-> IF k <= i THEN a ELSE b]) :
        n \in 0..MaxLen, i \in 0..MaxLen, a \in TrendCounts, b \in TrendCounts}

InitTrend ==
    /\ NoService
    /\ fnArgs \in {[fn |-> "trend_direction", historical |-> h, predictions |-> p] :
                      h \in TrendHistories, p \in SeqsUpTo(TrendPreds, 2)}
    /\ fnResult = NoFn

ApplyTrendDirection ==
    /\ fnArgs.fn = "trend_direction"
    /\ Apply("trend_direction",
             _analyze_trend_direction(fnArgs.historical, fnArgs.predictions))

SpecTrend == InitTrend /\ [][ApplyTrendDirection]_vars

\* perfectly linear histories y[i] = a*i + b, falling ones included
LinearSlopes == -2..2

LinearIntercepts == 0..3

LinearSeries ==
    {[i \in 1..n |-> Val(a * (i - 1) + b)] :
        n \in 2..MaxLen, a \in LinearSlopes, b \in LinearIntercepts}

InitLinear ==
    /\ NoService
    /\ fnArgs \in {[fn |-> "predictors", data |-> d, days |-> h] :
                      d \in LinearSeries, h \in 1..(MaxFnDays + 1)}
    /\ fnResult = NoFn

SpecLinear == InitLinear /\ [][ApplyLinear]_vars

\* the weekly profiles and the lengths of the periodic histories
WeekProfiles == [1..7 -> {0, 2}]

SeasonalLens == {7, 9, 14}

\* 7-periodic histories: the profile repeated over the length
PeriodicSeries ==
    {[i \in 1..n |-> Val(p[((i - 1) % 7) + 1])] :
        n \in SeasonalLens, p \in WeekProfiles}

InitSeasonal ==
    /\ NoService
    /\ fnArgs \in {[fn |-> "predictors", data |-> d, days |-> h] :
                      d \in PeriodicSeries, h \in {1, 7}}
    /\ fnResult = NoFn

SpecSeasonal == InitSeasonal /\ [][ApplySeasonal]_vars

-----------------------------------------------------------------------------
(* PredictorService.detect_anomalies.  The rows of the fetched history are *)
(* (date, count) pairs in date order; a row's date is modelled by its      *)
(* position.  np.std is a square root: the model carries its square (the   *)
(* population variance) and compares squares, |x| > 2*s being x^2 > 4*s^2. *)

\* np.std(counts) ** 2: the mean of the squared distances from the mean
Variance(counts) ==
    LET mean_val == Mean(counts)
    IN  Mean([i \in 1..Len(counts) |-> Sq(RSub(counts[i], mean_val))])

\* the threshold is one standard deviation
ExceedsThreshold_OneSigma(count, mean_val, var_val) ==
    RGreater(Sq(RSub(count, mean_val)), var_val)

\* the comparison is inclusive
ExceedsThreshold_Inclusive(count, mean_val, var_val) ==
    RLeq(RMul(Val(4), var_val), Sq(RSub(count, mean_val)))

\* abs(count - mean_val) > threshold, with threshold = 2 * std_val
ExceedsThreshold(count, mean_val, var_val) ==
    RGreater(Sq(RSub(count, mean_val)), RMul(Val(4), var_val))

\* the dict appended for row i
AnomalyEntry(i, count, mean_val) ==
    [date |-> i, value |-> count, deviation |-> RAbs(RSub(count, mean_val)),
     type |-> IF RGreater(count, mean_val) THEN "high" ELSE "low"]

\* the anomalies list after the loop has passed rows 1..k
RECURSIVE AnomaliesTo(_, _, _, _)
AnomaliesTo(counts, k, mean_val, var_val) ==
    IF k = 0 THEN <<>>
    ELSE LET before == AnomaliesTo(counts, k - 1, mean_val, var_val)
         IN  IF ExceedsThreshold(counts[k], mean_val, var_val)
             THEN Append(before, AnomalyEntry(k, counts[k], mean_val))
             ELSE before

\* the dict detect_anomalies returns; std_value and detection_threshold are
\* carried as their squares
BuildReport(mean_val, var_val, anomalies) ==
    [kind |-> "AnomalyReport",
     total_anomalies |-> Len(anomalies),
     anomalies |-> anomalies,
     mean_value |-> mean_val,
     std_value_squared |-> var_val,
     detection_threshold_squared |-> RMul(Val(4), var_val)]

AnomalyReport(counts) ==
    BuildReport(Mean(counts), Variance(counts),
                AnomaliesTo(counts, Len(counts), Mean(counts), Variance(counts)))

\* the 7-point minimum of predict is applied
NoAnomalyData_MinPoints(activity_data) ==
    activity_data.kind = "None" \/ Len(activity_data.daily_data) < self.min_data_points

\* not activity_data or not activity_data.daily_data
NoAnomalyData(activity_data) ==
    activity_data.kind = "None" \/ Len(activity_data.daily_data) = 0

\* what get_activity_analysis answers: the rows, or None when it failed
\* (it swallows its own exceptions) or found no row
ActivityData(outcome, rows) ==
    IF outcome = "error" \/ Len(rows) = 0 THEN None
    ELSE [kind |-> "ActivityAnalysisData", daily_data |-> rows]

\* detect_anomalies(group_id, days) up to its await
DetectAnomalies(days) ==
    /\ pc = "idle"
    /\ args' = [target |-> "anomalies", days |-> days]
    /\ pc' = "anomaly_fetch"
    /\ trace' = <<>>
    /\ result' = NoCall
    /\ escaped' = FALSE
    /\ UNCHANGED <<self, db, rng, locals, fnArgs, fnResult, kept, handler>>

\* the fetch answers and detect_anomalies runs to its return
AnomalyFetch(outcome) ==
    /\ pc = "anomaly_fetch"
    /\ LET activity_data == ActivityData(outcome, db)
       IN  /\ locals' = [activity_data |-> activity_data]
           /\ result' = IF NoAnomalyData(activity_data) THEN None
                        ELSE AnomalyReport(ToValues(activity_data.daily_data))
    /\ trace' = <<"fetch">>
    /\ pc' = "returned"
    /\ UNCHANGED <<self, db, rng, args, escaped, fnArgs, fnResult, kept, handler>>

AnomalyCounts == {0, 10, 50, 100}

\* lookback windows asked for
AnomalyDays == {7, 30}

\* stored histories for the detector: a base count with one day anywhere
\* and the last day set apart
AnomalyHistories ==
    {[k \in 1..n |-> IF k = n THEN c ELSE IF k = i THEN b ELSE a] :
        n \in 0..(MaxLen + 1), i \in 1..(MaxLen + 1),
        a \in AnomalyCounts, b \in AnomalyCounts, c \in AnomalyCounts}

InitAnomalies ==
    /\ self = [min_data_points |-> min_data_points,
               max_prediction_days |-> max_prediction_days]
    /\ db \in AnomalyHistories
    /\ rng = 0
    /\ pc = "idle"
    /\ args = NoArgs
    /\ locals = NoLocals
    /\ trace = <<>>
    /\ result = NoCall
    /\ escaped = FALSE
    /\ kept = NoCall
    /\ handler = NoHandler
    /\ fnArgs = NoFn
    /\ fnResult = NoFn

NextAnomalies ==
    \/ \E days \in AnomalyDays : DetectAnomalies(days)
    \/ \E outcome \in {"rows", "error"} : AnomalyFetch(outcome)
    \/ Done

SpecAnomalies == InitAnomalies /\ [][NextAnomalies]_vars

-----------------------------------------------------------------------------
(* Several predict calls on one service.  One call at a time is followed   *)
(* step by step; the caller keeps the outcome of its first call and calls  *)
(* again with the same arguments.  Calls of other requests are seen by     *)
(* their effect on what the calls share: a predict('activity') call that   *)
(* reaches its predictors draws days values from np.random.  The event     *)
(* loop runs such a call between two calls of the caller, or while the     *)
(* followed call waits at its only await, the fetch.                       *)

\* the state np.random.seed(...) puts the generator in
SeedState == 0

\* np.random.seed(...) by the host before a call is issued
Seed ==
    /\ pc = "idle"
    /\ rng # SeedState
    /\ rng' = SeedState
    /\ UNCHANGED <<self, db, pc, args, locals, trace, result, escaped, fnArgs, fnResult, kept, handler>>

\* another request's predict('activity', days) runs its predictors
ConcurrentPredict(days) ==
    /\ pc \in {"idle", "fetch"}
    /\ rng' = Advance(rng, days)
    /\ UNCHANGED <<self, db, pc, args, locals, trace, result, escaped, fnArgs, fnResult, kept, handler>>

\* the caller's first call, issued on a freshly seeded generator
CallFirst(target, days) ==
    /\ kept = NoCall
    /\ rng = SeedState
    /\ Predict(target, days)
    /\ UNCHANGED handler

\* the caller keeps what the first call returned and the noise it drew
Keep ==
    /\ pc = "returned"
    /\ args.target # "anomalies"
    /\ kept = NoCall
    /\ kept' = [kind |-> "Kept", args |-> args, result |-> result,
                noise |-> locals.noise]
    /\ pc' = "idle"
    /\ args' = NoArgs
    /\ locals' = NoLocals
    /\ trace' = <<>>
    /\ result' = NoCall
    /\ UNCHANGED <<self, db, rng, escaped, fnArgs, fnResult, handler>>

\* the same call again, issued on a generator seeded as before
CallAgain ==
    /\ kept # NoCall
    /\ rng = SeedState
    /\ Predict(kept.args.target, kept.args.days)
    /\ UNCHANGED handler

CallHorizons == {0, 1, 2}

CallHistories == {h \in Histories : Len(h) \in {6, 7}}

InitCalls ==
    /\ InitService
    /\ db \in CallHistories

NextCalls ==
    \/ \E target \in Targets, days \in CallHorizons : CallFirst(target, days)
    \/ CallAgain
    \/ \E outcome \in {"rows", "error"} : Fetch(outcome)
    \/ RunPredictors
    \/ Score
    \/ Describe
    \/ Return
    \/ Keep
    \/ Done
    \/ Seed
    \/ \E days \in 1..MaxFnDays : ConcurrentPredict(days)

SpecCalls == InitCalls /\ [][NextCalls]_vars

-----------------------------------------------------------------------------
(* predict on the members target, over histories of daily active-user      *)
(* counts that rise or fall slowly against their level.                    *)

MemberCounts == {0, 6, 7}

MemberHistories ==
    {[k \in 1..n |-> IF k <= i THEN a ELSE b] :
        n \in 6..MaxLen, i \in 0..MaxLen, a \in MemberCounts, b \in MemberCounts}

InitMembers ==
    /\ self = [min_data_points |-> min_data_points,
               max_prediction_days |-> max_prediction_days]
    /\ db \in MemberHistories
    /\ rng \in RngStates
    /\ pc = "idle"
    /\ args = NoArgs
    /\ locals = NoLocals
    /\ trace = <<>>
    /\ result = NoCall
    /\ escaped = FALSE
    /\ kept = NoCall
    /\ handler = NoHandler
    /\ fnArgs = NoFn
    /\ fnResult = NoFn

NextMembers ==
    \/ \E days \in Horizons : Predict("members", days) /\ UNCHANGED handler
    \/ \E outcome \in {"rows", "error"} : Fetch(outcome)
    \/ RunPredictors
    \/ Score
    \/ Describe
    \/ Return
    \/ Done

SpecMembers == InitMembers /\ [][NextMembers]_vars

-----------------------------------------------------------------------------
(* The recent-trend predictor on histories long enough for its window to   *)
(* reach 7 days.                                                           *)

\* histories whose count changes once, up to twice MaxLen days
TrendSeries ==
    {ToValues([k \in 1..n |-> IF k < i THEN a ELSE b]) :
        n \in 0..(2 * MaxLen), i \in 1..(2 * MaxLen), a \in Counts, b \in Counts}

InitRecentTrend ==
    /\ NoService
    /\ fnArgs \in {[fn |-> "predictors", data |-> d, days |-> h, noise |-> z] :
                      d \in TrendSeries, h \in {MaxFnDays},
                      z \in [1..MaxFnDays -> NoiseSet]}
    /\ fnResult = NoFn

SpecRecentTrend == InitRecentTrend /\ [][ApplyTrend]_vars

-----------------------------------------------------------------------------
(* predict and detect_anomalies called one after the other on the same     *)
(* service, in any order.                                                  *)

NextFrame ==
    \/ \E target \in Targets, days \in CallHorizons : CallFirst(target, days)
    \/ CallAgain
    \/ \E outcome \in {"rows", "error"} : Fetch(outcome)
    \/ RunPredictors
    \/ Score
    \/ Describe
    \/ Return
    \/ Keep
    \/ Done
    \/ Seed
    \/ \E days \in AnomalyDays : DetectAnomalies(days)
    \/ \E outcome \in {"rows", "error"} : AnomalyFetch(outcome)

SpecFrame == InitCalls /\ [][NextFrame]_vars

-----------------------------------------------------------------------------
(* The predict command of the plugin (src/main.py, predict_command).  The  *)
(* handler is an async generator: every yield is a reply to the user.  The *)
(* replies are named by what they say: "permission_denied", "days_over_30", *)
(* "analysing" (the progress line), "group_only",                           *)
(* "service_not_initialised", "description" (result.description),           *)
(* "image" (the chart), "insufficient_data" and "prediction_failed".        *)

Senders == {"admin", "member"}

AdminLists == {{}, {"admin"}}

GroupIds == {"", "group"}

\* days given with the command: a refused one, a usable one, the largest
\* the handler lets through and the first it stops
CmdDaysGiven == {0, 1, max_prediction_days, max_prediction_days + 1}

\* the plugin as configured and initialised, no command received
PluginReady(admin_users, predictor_service) ==
    [pc |-> "ready", admin_users |-> admin_users,
     predictor_service |-> predictor_service]

\* every user passes
_check_analysis_permission_Open(h) == TRUE

\* an empty admin list admits everyone, otherwise only the listed senders
_check_analysis_permission(h) ==
    IF h.admin_users = {} THEN TRUE ELSE h.event.sender_id \in h.admin_users

\* yield event.plain_result(...) or event.image_result(...)
Reply(h, text) == [h EXCEPT !.replies = Append(h.replies, text)]

\* yield a last reply and return
ReplyAndEnd(h, text) == [Reply(h, text) EXCEPT !.pc = "done"]

\* a check passed
Pass(h, check, next) == [h EXCEPT !.passed = Append(h.passed, check), !.pc = next]

\* the command arrives
CmdInvoke(sender_id, group_id, target, days) ==
    /\ handler.pc = "ready"
    /\ handler' = [pc |-> "permission",
                   admin_users |-> handler.admin_users,
                   predictor_service |-> handler.predictor_service,
                   event |-> [sender_id |-> sender_id, group_id |-> group_id,
                              target |-> target, days |-> days],
                   replies |-> <<>>, passed |-> <<>>, invoked |-> FALSE]
    /\ UNCHANGED <<svcVars, fnArgs, fnResult, kept>>

CmdPermission ==
    /\ handler.pc = "permission"
    /\ handler' = IF ~_check_analysis_permission(handler)
                  THEN ReplyAndEnd(handler, "permission_denied")
                  ELSE Pass(handler, "permission", "days")
    /\ UNCHANGED <<svcVars, fnArgs, fnResult, kept>>

\* the day limit, then the progress line
CmdDays ==
    /\ handler.pc = "days"
    /\ handler' = IF handler.event.days > 30
                  THEN ReplyAndEnd(handler, "days_over_30")
                  ELSE Reply(Pass(handler, "days", "group"), "analysing")
    /\ UNCHANGED <<svcVars, fnArgs, fnResult, kept>>

CmdGroup ==
    /\ handler.pc = "group"
    /\ handler' = IF handler.event.group_id = ""
                  THEN ReplyAndEnd(handler, "group_only")
                  ELSE Pass(handler, "group", "service")
    /\ UNCHANGED <<svcVars, fnArgs, fnResult, kept>>

CmdService ==
    /\ handler.pc = "service"
    /\ handler' = IF ~handler.predictor_service
                  THEN ReplyAndEnd(handler, "service_not_initialised")
                  ELSE Pass(handler, "service", "call")
    /\ UNCHANGED <<svcVars, fnArgs, fnResult, kept>>

\* await self.predictor_service.predict(group_id, target, days)
CmdCallPredict ==
    /\ handler.pc = "call"
    /\ Predict(handler.event.target, handler.event.days)
    /\ handler' = [handler EXCEPT !.pc = "await", !.invoked = TRUE]

\* predict has returned or raised: the description, the refusal line, or
\* the line of the except clause
CmdResult ==
    /\ handler.pc = "await"
    /\ pc = "returned"
    /\ handler' = IF escaped
                  THEN ReplyAndEnd(handler, "prediction_failed")
                  ELSE IF result.kind = "PredictionResult"
                  THEN [Reply(handler, "description") EXCEPT
                           !.pc = IF Len(result.predictions) > 0
                                  THEN "chart" ELSE "done"]
                  ELSE ReplyAndEnd(handler, "insufficient_data")
    /\ pc' = "idle"
    /\ args' = NoArgs
    /\ locals' = NoLocals
    /\ trace' = <<>>
    /\ result' = NoCall
    /\ escaped' = FALSE
    /\ UNCHANGED <<self, db, rng, fnArgs, fnResult, kept>>

\* the chart: no month of activity or no chart file, an image, or an
\* exception (chart_generator is None until initialised) caught at the end
CmdChart(outcome) ==
    /\ handler.pc = "chart"
    /\ handler' = IF outcome = "image" THEN ReplyAndEnd(handler, "image")
                  ELSE IF outcome = "raise"
                  THEN ReplyAndEnd(handler, "prediction_failed")
                  ELSE [handler EXCEPT !.pc = "done"]
    /\ UNCHANGED <<svcVars, fnArgs, fnResult, kept>>

\* the stored histories behind the command: none, too few days, enough
CmdHistories == {[k \in 1..n |-> c] : n \in {0, 6, 7}, c \in Counts}

InitHandler ==
    /\ self = [min_data_points |-> min_data_points,
               max_prediction_days |-> max_prediction_days]
    /\ db \in CmdHistories
    /\ rng = SeedState
    /\ pc = "idle"
    /\ args = NoArgs
    /\ locals = NoLocals
    /\ trace = <<>>
    /\ result = NoCall
    /\ escaped = FALSE
    /\ kept = NoCall
    /\ handler \in {PluginReady(a, s) : a \in AdminLists, s \in BOOLEAN}
    /\ fnArgs = NoFn
    /\ fnResult = NoFn

NextHandler ==
    \/ \E sender_id \in Senders, group_id \in GroupIds, target \in Targets,
          days \in CmdDaysGiven : CmdInvoke(sender_id, group_id, target, days)
    \/ CmdPermission
    \/ CmdDays
    \/ CmdGroup
    \/ CmdService
    \/ CmdCallPredict
    \/ \E outcome \in {"rows", "error"} : Fetch(outcome)
    \/ RunPredictors
    \/ Score
    \/ Describe
    \/ Return
    \/ CmdResult
    \/ \E outcome \in {"none", "image", "raise"} : CmdChart(outcome)

SpecHandler == InitHandler /\ [][NextHandler]_vars

-----------------------------------------------------------------------------
(* Claims about the helper methods *)

NonNegative(out) == \A i \in 1..Len(out) : RLeq(Zero, out[i])

\* C6: every value the linear, recent-trend and seasonal predictors and the
\* ensemble put out is >= 0, for every history (the empty one and a single
\* point included), every horizon and every noise drawn.
C6_NonNegativity ==
    fnResult.fn \in {"linear", "trend", "seasonal", "ensemble"}
    => NonNegative(fnResult.out)

\* the recent-trend predictor drew negative noise on a varying history and
\* the clamp set the value to 0
C6_Witness ==
    /\ fnResult.fn = "trend"
    /\ Len(fnArgs.data) >= 3
    /\ ~StdIsZero(fnArgs.data)
    /\ fnArgs.noise[1] = Val(-NoiseMag)
    /\ fnResult.out[1] = Zero

InUnitInterval(x) == RLeq(Zero, x) /\ RLeq(x, One)

\* C7: the confidence of every returned result, and the value of
\* _calculate_confidence for any pair of lists, lies in [0, 1], constant and
\* all-zero histories included.
C7_ConfidenceBounds ==
    /\ ReturnedResult => InUnitInterval(result.confidence)
    /\ fnResult.fn = "confidence" => InUnitInterval(fnResult.out)

\* an all-zero history was scored against a forecast as long as itself
C7_Witness ==
    /\ ReturnedResult
    /\ args.target = "members"
    /\ args.days = 8
    /\ Len(db) = 7
    /\ \A i \in 1..Len(db) : db[i] = 0
    /\ Len(locals.fitted) = Len(locals.counts)
    /\ result.confidence = One

\* the linear model's fit over x = 0..n-1
LinearInSample(y) ==
    [i \in 1..Len(y) |-> RAdd(LinearFit(y)[2], RMul(LinearFit(y)[1], Val(i - 1)))]

\* C8: the confidence of a returned result is the scorer's value for the
\* history y against the predictor's in-sample fit over y[0..n-1], a list of
\* length n (stated here for the length, and for the members target, whose
\* predictor is the linear model).
C8_InSampleConfidence ==
    ReturnedResult =>
        /\ Len(locals.fitted) = Len(locals.counts)
        /\ args.target = "members" =>
               result.confidence =
                   _calculate_confidence(locals.counts, LinearInSample(locals.counts))

\* C9: for three lists of equal length h, given in the order linear,
\* recent-trend, seasonal, the combiner returns a list of length h whose
\* value at every index i is 0.4*linear[i] + 0.3*recent[i] + 0.3*seasonal[i].
C9_WeightedAverage ==
    (fnResult.fn = "combine"
        /\ Len(fnArgs.lists[1]) = Len(fnArgs.lists[2])
        /\ Len(fnArgs.lists[2]) = Len(fnArgs.lists[3]))
    => /\ Len(fnResult.out) = Len(fnArgs.lists[1])
       /\ \A i \in 1..Len(fnResult.out) :
              fnResult.out[i] =
                  RAdd(RAdd(RMul(Rat(4, 10), fnArgs.lists[1][i]),
                            RMul(Rat(3, 10), fnArgs.lists[2][i])),
                       RMul(Rat(3, 10), fnArgs.lists[3][i]))

\* [2, 0], [0, 2] and [2, 2] were combined into [1.4, 1.2]
C9_Witness ==
    /\ fnResult.fn = "combine"
    /\ fnArgs.lists = <<<<Val(2), Zero>>, <<Zero, Val(2)>>, <<Val(2), Val(2)>>>>
    /\ fnResult.out = <<Rat(7, 5), Rat(6, 5)>>

RECURSIVE IntSumTo(_, _)
IntSumTo(s, k) == IF k = 0 THEN 0 ELSE IntSumTo(s, k - 1) + s[k][1]

\* C10: with recent_avg the mean of the last 7 historical values (all of
\* them if fewer) and rate = (mean(predictions) - recent_avg) / recent_avg,
\* taken as 0 when recent_avg is 0, the label is rising for rate > 0.1,
\* falling for rate < -0.1 and stable otherwise, +0.1 and -0.1 included.
\* For integer lists, with m the number of recent values, sh their sum, q
\* the number of predictions and sp their sum, rate = (m*sp - q*sh)/(q*sh).
C10_TrendThresholds ==
    (fnResult.fn = "trend_direction"
        /\ Len(fnArgs.historical) > 0 /\ Len(fnArgs.predictions) > 0)
    => LET h == fnArgs.historical
           p == fnArgs.predictions
           m == IF Len(h) < 7 THEN Len(h) ELSE 7
           sh == IntSumTo(h, Len(h)) - IntSumTo(h, Len(h) - m)
           q == Len(p)
           sp == IntSumTo(p, q)
           num == IF sh = 0 THEN 0 ELSE m * sp - q * sh
           den == IF sh = 0 THEN 1 ELSE q * sh
       IN  /\ 10 * num > den => fnResult.out = "rising"
           /\ 10 * num < -den => fnResult.out = "falling"
           /\ (10 * num <= den /\ 10 * num >= -den) => fnResult.out = "stable"
           /\ 100 * num = 15 * den => fnResult.out = "rising"
           /\ 100 * num = -15 * den => fnResult.out = "falling"
           /\ 100 * num = 2 * den => fnResult.out = "stable"

\* eight days, the last seven at 100, and a forecast of 115: rate +0.15
C10_Witness ==
    /\ fnResult.fn = "trend_direction"
    /\ fnArgs.historical = ToValues(<<0, 100, 100, 100, 100, 100, 100, 100>>)
    /\ fnArgs.predictions = <<Val(115)>>
    /\ fnResult.out = "rising"

-----------------------------------------------------------------------------
(* Claims about detect_anomalies *)

ReturnedAnomalies == pc = "returned" /\ args.target = "anomalies"

RECURSIVE SumTo(_, _)
SumTo(s, k) == IF k = 0 THEN 0 ELSE SumTo(s, k - 1) + s[k]

RECURSIVE SumSqTo(_, _)
SumSqTo(s, k) == IF k = 0 THEN 0 ELSE SumSqTo(s, k - 1) + s[k] * s[k]

\* |v - mean| > 2 * std_dev for day i of the integer series s: with n the
\* length, S the sum and Q the sum of squares, (n*v - S)^2 > 4 * (n*Q - S^2)
TwoSigmaDay(s, i) ==
    LET n == Len(s)
        S == SumTo(s, n)
        Q == SumSqTo(s, n)
    IN  (n * s[i] - S) * (n * s[i] - S) > 4 * (n * Q - S * S)

\* C11: the report lists exactly the days with |value - mean| > 2*std_dev
\* (mean and population standard deviation over all fetched values), in
\* series order, each with its value, deviation = |value - mean| and kind
\* high if value > mean else low; for [10,10,10,10,10,10,100] the only
\* anomaly is the day of the 100, with kind high.
C11_TwoSigmaRule ==
    (ReturnedAnomalies /\ result.kind = "AnomalyReport")
    => LET n == Len(db)
           S == SumTo(db, n)
           a == result.anomalies
       IN  /\ {a[j].date : j \in 1..Len(a)} = {i \in 1..n : TwoSigmaDay(db, i)}
           /\ \A j \in 1..(Len(a) - 1) : a[j].date < a[j + 1].date
           /\ \A j \in 1..Len(a) :
                  /\ a[j].value = Val(db[a[j].date])
                  /\ a[j].deviation = Rat(Abs(n * db[a[j].date] - S), n)
                  /\ a[j].type = IF n * db[a[j].date] > S THEN "high" ELSE "low"
           /\ db = <<10, 10, 10, 10, 10, 10, 100>>
              => /\ Len(a) = 1
                 /\ a[1].date = 7
                 /\ a[1].type = "high"

\* nine days at 50 but for a 0 and a final 100: a low and then a high anomaly
C11_Witness ==
    /\ ReturnedAnomalies
    /\ db = <<50, 50, 50, 0, 50, 50, 50, 50, 100>>
    /\ result.kind = "AnomalyReport"
    /\ Len(result.anomalies) = 2
    /\ result.anomalies[1].type = "low"
    /\ result.anomalies[2].type = "high"

\* C12: detect_anomalies never raises; it answers None exactly when the
\* fetch failed or found no day of data, and a report for every fetched
\* series of one day or more, series of 1 to 6 days included.
C12_NoMinimumForAnomalies ==
    ReturnedAnomalies =>
        /\ ~escaped
        /\ result.kind \in {"None", "AnomalyReport"}
        /\ result.kind = "None"
               <=> (locals.activity_data.kind = "None" \/ Len(db) = 0)
        /\ (locals.activity_data.kind # "None" /\ Len(db) \in 1..6)
               => result.kind = "AnomalyReport"

\* a single stored day was fetched and a report came back
C12_Witness ==
    /\ ReturnedAnomalies
    /\ Len(db) = 1
    /\ locals.activity_data.kind = "ActivityAnalysisData"
    /\ result.kind = "AnomalyReport"
    /\ result.total_anomalies = 0

-----------------------------------------------------------------------------
(* Claims about single predictors *)

\* the list y is y[i] = a*i + b over i = 0..n-1 with a = y[1] - y[0]
PerfectlyLinear(y) ==
    /\ Len(y) >= 2
    /\ \A i \in 1..Len(y) : y[i] = RAdd(y[1], RMul(Val(i - 1), RSub(y[2], y[1])))

\* C13: for a perfectly linear history y[i] = a*i + b of length n >= 2 the
\* linear predictor returns max(0, a*(n+k) + b) for k = 0..h-1; for
\* [1,2,3,4,5,6,7] and h = 3 that is [8, 9, 10].
C13_LinearExactness ==
    (fnResult.fn = "linear" /\ PerfectlyLinear(fnArgs.data))
    => LET y == fnArgs.data
           n == Len(y)
           a == y[2][1] - y[1][1]
           b == y[1][1]
       IN  /\ Len(fnResult.out) = fnArgs.days
           /\ \A k \in 0..(fnArgs.days - 1) :
                  fnResult.out[k + 1] =
                      Val(IF a * (n + k) + b > 0 THEN a * (n + k) + b ELSE 0)
           /\ (y = ToValues(<<1, 2, 3, 4, 5, 6, 7>>) /\ fnArgs.days = 3)
                  => fnResult.out = ToValues(<<8, 9, 10>>)

\* [1,2,3,4,5,6,7] was projected three days ahead
C13_Witness ==
    /\ fnResult.fn = "linear"
    /\ fnArgs.data = ToValues(<<1, 2, 3, 4, 5, 6, 7>>)
    /\ fnArgs.days = 3
    /\ fnResult.out = ToValues(<<8, 9, 10>>)

\* the list y repeats with period 7
Periodic7(y) == \A i \in 1..Len(y) : i > 7 => y[i] = y[i - 7]

\* C14: for a perfectly 7-periodic history with positive weekly mean whose
\* length is a multiple of 7, the seasonal predictor with horizon 7 returns
\* the 7 values of one historical period, in order.
C14_SeasonalPeriodicity ==
    (fnResult.fn = "seasonal"
        /\ Len(fnArgs.data) >= 7 /\ Len(fnArgs.data) % 7 = 0
        /\ Periodic7(fnArgs.data)
        /\ \E i \in 1..7 : fnArgs.data[i][1] > 0
        /\ fnArgs.days = 7)
    => fnResult.out = SubSeq(fnArgs.data, 1, 7)

\* a 14-day history of two equal weeks, not constant, was forecast 7 days
C14_Witness ==
    /\ fnResult.fn = "seasonal"
    /\ fnArgs.data = ToValues(<<2, 0, 0, 2, 2, 0, 2, 2, 0, 0, 2, 2, 0, 2>>)
    /\ fnArgs.days = 7
    /\ fnResult.out = ToValues(<<2, 0, 0, 2, 2, 0, 2>>)

-----------------------------------------------------------------------------
(* Claims about several calls *)

\* a call with valid arguments on a sufficient history came back with None:
\* its fetch failed
FetchFailed(a, r) ==
    /\ ValidHorizon(a.days)
    /\ a.target \in {"activity", "members", "topics"}
    /\ Len(db) >= 7
    /\ r.kind = "None"

\* the second of two calls with the same arguments has returned, and the
\* fetch failed in neither
SecondReturned ==
    /\ Returned
    /\ kept # NoCall
    /\ args = kept.args
    /\ ~FetchFailed(args, result)
    /\ ~FetchFailed(kept.args, kept.result)

\* C15: two predict calls with the same stored history, target and horizon
\* return identical results (predictions, confidence, trend_direction,
\* change_percent, description): always for members and topics, and for
\* activity when both calls drew the same noise.
C15_Idempotence ==
    (SecondReturned /\ (args.target = "activity" => locals.noise = kept.noise))
    => result = kept.result

\* two activity calls on a varying history drew the same non-zero noise
\* and returned the same result
C15_Witness ==
    /\ SecondReturned
    /\ args.target = "activity"
    /\ result.kind = "PredictionResult"
    /\ \E i, j \in 1..Len(db) : db[i] # db[j]
    /\ locals.noise = kept.noise
    /\ locals.noise[1] # Zero
    /\ result = kept.result

\* C16: the noise comes from a source local to the request, so an activity
\* call returns the same result whether or not other predict calls run
\* before it, after it or interleaved with it: of two calls with the same
\* arguments issued on an equally seeded source, the second returns what
\* the first returned, whatever other requests did meanwhile.
C16_CallIndependence ==
    (SecondReturned /\ args.target = "activity") => result = kept.result

-----------------------------------------------------------------------------
(* Claims about the combiner with missing lists, and the members trend *)

Longest(lists) ==
    CHOOSE h \in {Len(lists[j]) : j \in 1..3} : \A j \in 1..3 : Len(lists[j]) <= h

\* the average at index i of the lists that reach i, each with its own
\* weight (linear 0.4, recent-trend 0.3, seasonal 0.3) over their sum
AvailableAverage(lists, i) ==
    LET w == <<Rat(4, 10), Rat(3, 10), Rat(3, 10)>>
        num == RSum([j \in 1..3 |-> IF i <= Len(lists[j])
                                    THEN RMul(w[j], lists[j][i]) ELSE Zero])
        den == RSum([j \in 1..3 |-> IF i <= Len(lists[j]) THEN w[j] ELSE Zero])
    IN  RDiv(num, den)

\* C17: when one of the three lists is missing (empty) or shorter than h,
\* the combined list still has length h and its value at every index is the
\* weighted average of the lists that have a value there, each keeping its
\* own weight renormalised over those available; with the linear list
\* missing that is 0.5*recent[i] + 0.5*seasonal[i].
C17_WeightRedistribution ==
    (fnResult.fn = "combine"
        /\ \E j \in 1..3 : Len(fnArgs.lists[j]) < Longest(fnArgs.lists))
    => /\ Len(fnResult.out) = Longest(fnArgs.lists)
       /\ \A i \in 1..Len(fnResult.out) :
              fnResult.out[i] = AvailableAverage(fnArgs.lists, i)

\* the rate of the predicted average against the mean of the last 7 stored
\* values, taken as 0 when that mean is 0
MembersRate ==
    LET recent == Mean(LastK(ToValues(db), 7))
    IN  IF RGreater(recent, Zero)
        THEN RDiv(RSub(Mean(result.predictions), recent), recent)
        ELSE Zero

\* the members label is the rising one above +t, the falling one below -t
MembersClassifiedAt(t) ==
    /\ result.trend_direction = "growing" <=> RGreater(MembersRate, t)
    /\ result.trend_direction = "falling" <=> RLess(MembersRate, RNeg(t))
    /\ result.trend_direction = "stable"
           <=> (RLeq(MembersRate, t) /\ RLeq(RNeg(t), MembersRate))

\* C18 as stated: for the members target the direction is rising only when
\* the predicted average is more than 10% above the recent 7-day average,
\* falling only when it is more than 10% below, stable otherwise.
C18_MembersTenPercent ==
    (ReturnedResult /\ args.target = "members") => MembersClassifiedAt(Rat(1, 10))

\* C18 amended: for the members target the direction is rising only when
\* the predicted average is more than 5% above the recent 7-day average,
\* falling only when it is more than 5% below, stable otherwise.
C18_MembersFivePercent ==
    (ReturnedResult /\ args.target = "members") => MembersClassifiedAt(Rat(5, 100))

\* a members forecast between 5% and 10% above the recent average was
\* returned as rising
C18_Witness ==
    /\ ReturnedResult
    /\ args.target = "members"
    /\ RGreater(MembersRate, Rat(5, 100))
    /\ RLeq(MembersRate, Rat(1, 10))
    /\ result.trend_direction = "growing"

-----------------------------------------------------------------------------
(* Claims about the seasonal division and the order of the stages *)

\* the mean of y[r], y[r+7], y[r+14], ... (r counted from 0)
SeasonalProfile(y, r) ==
    RDiv(RSum([k \in 1..Len(y) |-> IF (k - 1) % 7 = r THEN y[k] ELSE Zero]),
         Val(Cardinality({k \in 1..Len(y) : (k - 1) % 7 = r})))

\* C19: when the mean of the first 7 historical values is 0 the division
\* is guarded and the trend factor is 1: each forecast value is the finite
\* seasonal profile value at index step mod 7.
C19_GuardedTrendFactor ==
    (fnResult.fn = "seasonal"
        /\ Len(fnArgs.data) >= 7
        /\ Mean(FirstK(fnArgs.data, 7)) = Zero)
    => \A i \in 1..Len(fnResult.out) :
           /\ IsFinite(fnResult.out[i])
           /\ fnResult.out[i] = SeasonalProfile(fnArgs.data, (i - 1) % 7)

Stages == <<"validate", "fetch", "predict", "score", "describe", "return">>

\* C20: a predict call passes the stages horizon validation, data fetch,
\* prediction, confidence scoring, description building and return in this
\* order; a call that returns a result has passed all of them, and a call
\* refused for fewer than 7 points has stopped at the fetch: no predictor
\* was run, no confidence scored, no description built.
C20_StageOrder ==
    pc # "idle" =>
        /\ Len(trace) <= Len(Stages)
        /\ trace = SubSeq(Stages, 1, Len(trace))
        /\ ReturnedResult => trace = Stages
        /\ (Returned /\ ValidHorizon(args.days)
               /\ args.target \in {"activity", "members", "topics"}
               /\ Len(db) < 7)
           => /\ trace = <<"validate", "fetch">>
              /\ locals.predictions = <<>>
              /\ locals.confidence = Unset
              /\ locals.description = <<>>

\* an activity call on eight stored days has passed every stage
C20_Witness ==
    /\ ReturnedResult
    /\ args.target = "activity"
    /\ Len(db) = 8
    /\ trace = Stages
    /\ locals.confidence # Unset
    /\ locals.description # <<>>

-----------------------------------------------------------------------------
(* Claims about what a call leaves behind *)

\* the fields __init__ sets
Constructed ==
    [min_data_points |-> 7, max_prediction_days |-> 30]

\* the series a call in progress has fetched is the stored one
FetchedSeriesIntact ==
    /\ pc \in {"model", "score", "describe", "return"}
           => locals.counts = ToValues(db)
    /\ (ReturnedResult /\ args.target # "anomalies")
           => locals.counts = ToValues(db)
    /\ (ReturnedAnomalies /\ result.kind = "AnomalyReport")
           => locals.activity_data.daily_data = db

\* C21: predict and detect_anomalies leave the fields of the service
\* (min_data_points = 7, max_prediction_days = 30) unchanged, only read the
\* storage and do not modify the fetched series: after any sequence of
\* calls, successful or refused, the service is as constructed.
C21_Frame ==
    /\ [](self = Constructed /\ FetchedSeriesIntact)
    /\ [][self' = self /\ db' = db]_vars

\* after a refused predict call the caller kept, a detect_anomalies call on
\* the same service has returned a report
C21_Witness ==
    /\ kept # NoCall
    /\ kept.result = None
    /\ ReturnedAnomalies
    /\ result.kind = "AnomalyReport"
    /\ self = Constructed
    /\ Len(db) = 7

-----------------------------------------------------------------------------
(* Claims about the recent-trend predictor *)

\* sum of the integer values data[a..b]
RECURSIVE IntRange(_, _, _)
IntRange(data, a, b) == IF a > b THEN 0 ELSE data[a][1] + IntRange(data, a + 1, b)

\* the noise of step k: the draw, or 0 when the history has deviation 0
NoiseAt(k) ==
    IF \A i \in 1..Len(fnArgs.data) : fnArgs.data[i] = fnArgs.data[1]
    THEN 0 ELSE fnArgs.noise[k][1]

\* max(0, y[n-1] + slope*k + noise_k) over the common denominator w*w
TrendValue(k) ==
    LET data == fnArgs.data
        n == Len(data)
        w == IF n \div 2 < 7 THEN n \div 2 ELSE 7
        diff == IntRange(data, n - w + 1, n) - IntRange(data, 1, w)
        num == data[n][1] * w * w + diff * k + NoiseAt(k) * w * w
    IN  IF num > 0 THEN Rat(num, w * w) ELSE Zero

\* C22: for a history of length n >= 3 the recent-trend predictor uses the
\* window w = min(7, n div 2) and slope = (mean of the last w values - mean
\* of the first w values) / w, and returns for each step k = 1..h the value
\* max(0, y[n-1] + slope*k + noise_k), clamped after the noise is added;
\* for n < 3 it returns exactly what the linear predictor returns.
C22_RecentTrendFormula ==
    fnResult.fn = "trend" =>
        /\ Len(fnResult.out) = fnArgs.days
        /\ IF Len(fnArgs.data) >= 3
           THEN \A k \in 1..fnArgs.days : fnResult.out[k] = TrendValue(k)
           ELSE fnResult.out = _linear_prediction(fnArgs.data, fnArgs.days)

\* fourteen days with a rise on the last day: window 7, slope 1/49, and a
\* negative draw clamped to 0 at the first step
C22_Witness ==
    /\ fnResult.fn = "trend"
    /\ Len(fnArgs.data) = 14
    /\ fnArgs.data[13] = Zero
    /\ fnArgs.data[14] = One
    /\ fnArgs.noise = <<Val(-NoiseMag), Zero>>
    /\ fnResult.out = <<Zero, Rat(51, 49)>>

-----------------------------------------------------------------------------
(* Claims about degenerate histories and the confidence of short horizons *)

StableLabels == {"stable", "topics_stable"}

\* C23: numeric degeneracies never turn into a refusal: on a history of at
\* least 7 days, constant and all-zero ones included, a call with a valid
\* target and horizon whose fetch delivered returns a result, not None;
\* when the mean of the last 7 historical values is 0 the change rate is
\* taken as 0: change_percent is 0 and the direction is the stable label.
C23_DegeneraciesAbsorbed ==
    /\ (Returned /\ ValidHorizon(args.days) /\ Len(db) >= 7
           /\ args.target \in {"activity", "members", "topics"}
           /\ result = None)
       => (trace = <<"validate", "fetch">> /\ locals.counts = <<>>)
    /\ (ReturnedResult /\ SumTo(LastK(db, 7), 7) = 0)
       => /\ result.change_percent = Zero
          /\ result.trend_direction \in StableLabels

\* an activity call on eight days whose last seven are all 0
C23_Witness ==
    /\ ReturnedResult
    /\ args.target = "activity"
    /\ Len(db) = 8
    /\ db[1] > 0
    /\ SumTo(LastK(db, 7), 7) = 0
    /\ result.change_percent = Zero
    /\ result.trend_direction = "stable"

\* C24: for every target, when the requested horizon is smaller than the
\* number n of historical points, the confidence of the returned result is
\* exactly 0.5 whatever the data: the forecast slice handed to the scorer
\* has the length of the horizon, not n.
C24_ShortHorizonConfidence ==
    (ReturnedResult /\ args.days < Len(locals.counts))
        => /\ Len(locals.fitted) = args.days
           /\ result.confidence = Half

\* a one-day members forecast on eight rising days is scored 0.5
C24_Witness ==
    /\ ReturnedResult
    /\ args.target = "members"
    /\ args.days = 1
    /\ Len(locals.counts) = 8
    /\ db[1] < db[8]
    /\ result.confidence = Half

-----------------------------------------------------------------------------
(* Claims about the number of anomalies *)

\* C25: for a series of n non-negative integers the number of anomalies
\* reported is strictly less than n/4; a series of 4 or fewer points and a
\* constant series never produce an anomaly; total_anomalies is the length
\* of the anomalies list.
C25_AnomalyCount ==
    (ReturnedAnomalies /\ result.kind = "AnomalyReport")
    => LET n == Len(db)
       IN  /\ 4 * result.total_anomalies < n
           /\ result.total_anomalies = Len(result.anomalies)
           /\ n <= 4 => result.total_anomalies = 0
           /\ (\A i \in 1..n : db[i] = db[1]) => result.total_anomalies = 0

\* nine days, the first at 0 and the last at 100 around a level of 50: two
\* anomalies, the most nine days can have
C25_Witness ==
    /\ ReturnedAnomalies
    /\ db = <<0, 50, 50, 50, 50, 50, 50, 50, 100>>
    /\ result.kind = "AnomalyReport"
    /\ result.total_anomalies = 2
    /\ Len(result.anomalies) = 2

-----------------------------------------------------------------------------
(* Claims about the agreement of direction and change rate *)

\* C26: for the activity target the direction and change_percent of a
\* returned result agree: rising exactly when change_percent > 10, falling
\* exactly when change_percent < -10, stable otherwise; predict never
\* returns the label unknown.
C26_DirectionAgreesWithChange ==
    ReturnedResult =>
        /\ result.trend_direction # "unknown"
        /\ args.target = "activity" =>
               /\ result.trend_direction = "rising"
                      <=> RGreater(result.change_percent, Val(10))
               /\ result.trend_direction = "falling"
                      <=> RLess(result.change_percent, Val(-10))
               /\ result.trend_direction \in {"rising", "falling", "stable"}

\* eight days that end higher than they began: the first day lies outside
\* the seven recent days, the forecast is rising and above 10 percent
C26_Witness ==
    /\ ReturnedResult
    /\ args.target = "activity"
    /\ Len(db) = 8
    /\ db[1] < db[2]
    /\ result.trend_direction = "rising"
    /\ RGreater(result.change_percent, Val(10))
    /\ IsFinite(result.change_percent)

-----------------------------------------------------------------------------
(* Claims about constant histories *)

\* h copies of the value c
Copies(c, h) == [i \in 1..h |-> Val(c)]

\* the stored history has at least 7 days, all at the same positive count
ConstantPositive ==
    /\ Len(db) >= 7
    /\ db[1] > 0
    /\ \A i \in 1..Len(db) : db[i] = db[1]

\* C27: a constant positive history is a fixed point of the forecast: for
\* n >= 7 values all equal to c > 0 and a valid horizon h, the linear, the
\* recent-trend (whatever it draws: its noise has deviation 0) and the
\* seasonal predictor and their ensemble all return h copies of c, and
\* predict returns change_percent 0 and the stable label for every target.
C27_ConstantFixedPoint ==
    (ReturnedResult /\ ConstantPositive)
    => LET data == locals.counts
           h == args.days
           copies == Copies(db[1], h)
       IN  /\ _linear_prediction(data, h) = copies
           /\ \A r \in RngStates :
                  _trend_analysis_prediction(data, h, Draws(r, h)) = copies
           /\ _seasonal_prediction(data, h) = copies
           /\ _combine_predictions(<<copies, copies, copies>>) = copies
           /\ result.predictions = copies
           /\ result.change_percent = Zero
           /\ result.trend_direction \in StableLabels

\* an activity forecast of 8 days on seven days at 2, the generator
\* yielding a non-zero first draw
C27_Witness ==
    /\ ReturnedResult
    /\ args.target = "activity"
    /\ args.days = min_data_points + 1
    /\ db = <<2, 2, 2, 2, 2, 2, 2>>
    /\ locals.noise[1] # Zero
    /\ result.predictions = Copies(2, min_data_points + 1)
    /\ result.trend_direction = "stable"

-----------------------------------------------------------------------------
(* Claims about the phase of the weekly cycle *)

\* C28: the seasonal forecast continues the weekly cycle from the end of
\* the history: for a perfectly 7-periodic history of any length n >= 7,
\* multiple of 7 or not, predictions[i] (the forecast for day i+1 after the
\* last historical day) is the historical value at the same position of
\* the cycle, y[(n + i) mod 7].
C28_CycleContinues ==
    (fnResult.fn = "seasonal"
        /\ Len(fnArgs.data) >= 7
        /\ Periodic7(fnArgs.data))
    => \A i \in 0..(Len(fnResult.out) - 1) :
           fnResult.out[i + 1] = fnArgs.data[((Len(fnArgs.data) + i) % 7) + 1]

\* the forecast after nine days of a weekly cycle restarts the cycle at its
\* first day
C28_PhaseRestarts ==
    /\ fnResult.fn = "seasonal"
    /\ fnArgs.data = ToValues(<<2, 0, 0, 0, 0, 0, 0, 2, 0>>)
    /\ fnArgs.days = 1
    /\ fnResult.out = <<Val(2)>>

-----------------------------------------------------------------------------
(* Claims about the range of the ensemble *)

\* the predictor values available at index i
AvailableAt(i) ==
    {fnArgs.lists[j][i] : j \in {k \in 1..Len(fnArgs.lists) : i <= Len(fnArgs.lists[k])}}

-----------------------------------------------------------------------------
(* Claims about the predict command *)

Checks == <<"permission", "days", "group", "service">>

\* the sender may use the command
Permitted ==
    handler.admin_users = {} \/ handler.event.sender_id \in handler.admin_users

\* C30: the handler invokes predictor_service.predict only after, in this
\* order, the permission check passed, days <= 30 held, the event had a
\* group id and the service was initialised; when one of them fails it
\* replies with the corresponding refusal and ends without invoking the
\* service; every invocation of the handler, one whose prediction returns
\* None or raises included, produces at least one reply.
C30_HandlerOrder ==
    handler.pc \notin {"none", "ready"} =>
        /\ handler.passed = SubSeq(Checks, 1, Len(handler.passed))
        /\ handler.invoked =>
               /\ handler.passed = Checks
               /\ Permitted
               /\ handler.event.days <= 30
               /\ handler.event.group_id # ""
               /\ handler.predictor_service
        /\ ~handler.invoked => (pc = "idle" /\ trace = <<>>)
        /\ handler.pc = "done" =>
               /\ Len(handler.replies) >= 1
               /\ handler.invoked
                      <=> /\ Permitted
                          /\ handler.event.days <= 30
                          /\ handler.event.group_id # ""
                          /\ handler.predictor_service
               /\ ~handler.invoked =>
                      handler.replies =
                          IF ~Permitted THEN <<"permission_denied">>
                          ELSE IF handler.event.days > 30 THEN <<"days_over_30">>
                          ELSE IF handler.event.group_id = ""
                          THEN <<"analysing", "group_only">>
                          ELSE <<"analysing", "service_not_initialised">>

\* a listed admin asked for one day in a group with six stored days: all
\* four checks passed, predict returned None and the user was told so
C30_Witness ==
    /\ handler.pc = "done"
    /\ handler.admin_users = {"admin"}
    /\ handler.event.sender_id = "admin"
    /\ handler.event.days = 1
    /\ Len(db) = 6
    /\ handler.invoked
    /\ handler.passed = Checks
    /\ handler.replies = <<"analysing", "insufficient_data">>

====
